---- MODULE Spec2Model ----
(***************************************************************************)
(* Model of add_content.py: upload a table of URL sources and a table of   *)
(* local-file sources to S3 (skipping keys that are already present) and   *)
(* start an ingestion job for the knowledge base.                          *)
(*                                                                         *)
(* File names and S3 keys are sequences of one-character strings, so that  *)
(* lower() and endswith() are computed and not assumed.  Python functions  *)
(* are operators that map the outcomes of the calls they make (head_object,*)
(* requests.get, open, put_object, list_data_sources, start_ingestion_job) *)
(* to what the function returns ("True", "False" or "raise") and to the    *)
(* remote calls it issued.                                                 *)
(***************************************************************************)
EXTENDS Integers, Sequences, FiniteSets, TLC

(* ------------------------------ bounds -------------------------------- *)
\* longest table of URL sources (main's table has one entry)
MaxUrl == 2
\* longest table of local-file sources (main's table has one entry)
MaxFile == 2
\* number of consecutive runs of the script against the same bucket
MaxRuns == 2

(* ------------------------- strings as sequences ----------------------- *)
UpperChars == <<"A","B","C","D","E","F","G","H","I","J","K","L","M","N","O","P","Q","R","S","T","U","V","W","X","Y","Z">>
LowerChars == <<"a","b","c","d","e","f","g","h","i","j","k","l","m","n","o","p","q","r","s","t","u","v","w","x","y","z">>

\* str.lower() on one character
lower_char(c) ==
    IF \E n \in 1..Len(UpperChars) : UpperChars[n] = c
    THEN LowerChars[CHOOSE n \in 1..Len(UpperChars) : UpperChars[n] = c]
    ELSE c

\* str.lower()
lower(s) == [n \in 1..Len(s) |-> lower_char(s[n])]

\* str.endswith(suffix)
endswith(s, suffix) ==
    /\ Len(s) >= Len(suffix)
    /\ SubSeq(s, Len(s) - Len(suffix) + 1, Len(s)) = suffix

\* str.endswith(tuple of suffixes)
endswith_any(s, suffixes) == \E suffix \in suffixes : endswith(s, suffix)

(* --------------------------- get_contents_type ------------------------ *)
\* the variant that forgets lower(): matches the extension case-sensitively
get_contents_type_case_sensitive(file_name) ==
    IF endswith_any(file_name, {<<".","j","p","g">>, <<".","j","p","e","g">>}) THEN "image/jpeg"
    ELSE IF endswith(file_name, <<".","p","d","f">>) THEN "application/pdf"
    ELSE IF endswith(file_name, <<".","t","x","t">>) THEN "text/plain"
    ELSE IF endswith(file_name, <<".","c","s","v">>) THEN "text/csv"
    ELSE IF endswith_any(file_name, {<<".","p","p","t">>, <<".","p","p","t","x">>}) THEN "application/vnd.ms-powerpoint"
    ELSE IF endswith_any(file_name, {<<".","d","o","c">>, <<".","d","o","c","x">>}) THEN "application/msword"
    ELSE IF endswith(file_name, <<".","x","l","s">>) THEN "application/vnd.ms-excel"
    ELSE IF endswith(file_name, <<".","p","y">>) THEN "text/x-python"
    ELSE IF endswith(file_name, <<".","j","s">>) THEN "application/javascript"
    ELSE IF endswith(file_name, <<".","m","d">>) THEN "text/markdown"
    ELSE IF endswith(file_name, <<".","p","n","g">>) THEN "image/png"
    ELSE "no info"

get_contents_type(file_name) ==
    IF endswith_any(lower(file_name), {<<".","j","p","g">>, <<".","j","p","e","g">>}) THEN "image/jpeg"
    ELSE IF endswith(lower(file_name), <<".","p","d","f">>) THEN "application/pdf"
    ELSE IF endswith(lower(file_name), <<".","t","x","t">>) THEN "text/plain"
    ELSE IF endswith(lower(file_name), <<".","c","s","v">>) THEN "text/csv"
    ELSE IF endswith_any(lower(file_name), {<<".","p","p","t">>, <<".","p","p","t","x">>}) THEN "application/vnd.ms-powerpoint"
    ELSE IF endswith_any(lower(file_name), {<<".","d","o","c">>, <<".","d","o","c","x">>}) THEN "application/msword"
    ELSE IF endswith(lower(file_name), <<".","x","l","s">>) THEN "application/vnd.ms-excel"
    ELSE IF endswith(lower(file_name), <<".","p","y">>) THEN "text/x-python"
    ELSE IF endswith(lower(file_name), <<".","j","s">>) THEN "application/javascript"
    ELSE IF endswith(lower(file_name), <<".","m","d">>) THEN "text/markdown"
    ELSE IF endswith(lower(file_name), <<".","p","n","g">>) THEN "image/png"
    ELSE "no info"

(* ------------------------- check_file_exists_in_s3 -------------------- *)
\* What head_object can answer: "200" (the object is there), or a
\* ClientError carrying an error code, or an error that is no ClientError.
ClientErrorCodes == {"404", "403"}
HeadResponses == {"200", "404", "403", "EndpointConnectionError"}

\* the variant that treats every ClientError as "absent"
check_file_exists_in_s3_any_error_absent(head) ==
    IF head = "200" THEN "True"
    ELSE IF head \in ClientErrorCodes THEN "False"
    ELSE "raise"

\* the variant that answers "absent" whatever the store says
check_file_exists_in_s3_never_present(head) ==
    IF head \in {"200", "404"} THEN "False" ELSE "raise"

check_file_exists_in_s3(head) ==
    IF head = "200" THEN "True"
    ELSE IF head \in ClientErrorCodes /\ head = "404" THEN "False"
    ELSE "raise"

(* ------------------------------ put_object params --------------------- *)
\* put_params['ContentType'] is set only when the type is known
with_content_type_always(put_params, content_type) ==
    put_params @@ ("ContentType" :> content_type)

with_content_type(put_params, content_type) ==
    IF content_type # "no info"
    THEN put_params @@ ("ContentType" :> content_type)
    ELSE put_params

\* put_params['ContentDisposition'] = 'inline' for PDF only
with_content_disposition_always(put_params, content_type) ==
    put_params @@ ("ContentDisposition" :> "inline")

with_content_disposition(put_params, content_type) ==
    IF content_type = "application/pdf"
    THEN put_params @@ ("ContentDisposition" :> "inline")
    ELSE put_params

file_put_params(bucket_name, s3_key) ==
    LET content_type == get_contents_type(s3_key)
        put_params == [Bucket |-> bucket_name, Key |-> s3_key, Body |-> "file_bytes",
                       Metadata |-> [content_type |-> content_type]]
    IN  with_content_disposition(with_content_type(put_params, content_type), content_type)

url_put_params(url, bucket_name, s3_key) ==
    LET content_type == get_contents_type(s3_key)
        put_params == [Bucket |-> bucket_name, Key |-> s3_key, Body |-> "file_bytes",
                       Metadata |-> [content_type |-> content_type, source_url |-> url]]
    IN  with_content_disposition(with_content_type(put_params, content_type), content_type)

(* ------------------------------ uploaders ---------------------------- *)
\* Outcomes of the calls the uploaders make.
OpenResults == {"ok", "FileNotFoundError", "OSError"}
GetResults == {"ok", "RequestException"}
PutResults == {"ok", "ClientError"}

put_call(put_params, put_result) ==
    [op |-> "put_object", key |-> put_params.Key, params |-> put_params,
     ok |-> (put_result = "ok")]

\* the variant without the "except FileNotFoundError" and "except Exception" clauses
upload_file_to_s3_uncaught(local_file, bucket_name, s3_key, open_result, put_result) ==
    IF open_result # "ok"
    THEN [ret |-> "raise", calls |-> <<>>]
    ELSE [ret |-> IF put_result = "ok" THEN "True" ELSE "raise",
          calls |-> <<put_call(file_put_params(bucket_name, s3_key), put_result)>>]

\* upload_file_to_s3: open and read the file, put_object; every exception
\* is caught and turned into False
upload_file_to_s3(local_file, bucket_name, s3_key, open_result, put_result) ==
    IF open_result = "FileNotFoundError"
    THEN [ret |-> "False", calls |-> <<>>]
    ELSE IF open_result # "ok"
    THEN [ret |-> "False", calls |-> <<>>]
    ELSE [ret |-> IF put_result = "ok" THEN "True" ELSE "False",
          calls |-> <<put_call(file_put_params(bucket_name, s3_key), put_result)>>]

\* upload_url_to_s3: requests.get with raise_for_status, put_object; every
\* exception is caught and turned into False
upload_url_to_s3(url, bucket_name, s3_key, get_result, put_result) ==
    LET get_call == [op |-> "requests.get", url |-> url, ok |-> (get_result = "ok")]
    IN  IF get_result # "ok"
        THEN [ret |-> "False", calls |-> <<get_call>>]
        ELSE [ret |-> IF put_result = "ok" THEN "True" ELSE "False",
              calls |-> <<get_call,
                          put_call(url_put_params(url, bucket_name, s3_key), put_result)>>]

(* --------------------------- sync_knowledge_base ---------------------- *)
\* What list_data_sources can answer: an exception, or a list of summaries
\* (here: of data source ids), possibly empty.
DataSourceLists == {<<>>, <<"ds1">>, <<"ds2", "ds1">>}
ListResults ==
    {[ok |-> FALSE, summaries |-> <<>>]}
        \cup {[ok |-> TRUE, summaries |-> s] : s \in DataSourceLists}
StartResults == {"ok", "raise"}

list_call(list_result) ==
    [op |-> "list_data_sources", ok |-> list_result.ok, summaries |-> list_result.summaries]
start_call(data_source_id, start_result) ==
    [op |-> "start_ingestion_job", dataSourceId |-> data_source_id,
     ok |-> (start_result = "ok")]

\* the variant that takes the last listed data source
sync_knowledge_base_last(list_result, start_result) ==
    IF ~list_result.ok THEN [ret |-> "False", calls |-> <<list_call(list_result)>>]
    ELSE IF list_result.summaries = <<>>
    THEN [ret |-> "False", calls |-> <<list_call(list_result)>>]
    ELSE [ret |-> IF start_result = "ok" THEN "True" ELSE "False",
          calls |-> <<list_call(list_result),
                      start_call(list_result.summaries[Len(list_result.summaries)],
                                 start_result)>>]

sync_knowledge_base(list_result, start_result) ==
    IF ~list_result.ok THEN [ret |-> "False", calls |-> <<list_call(list_result)>>]
    ELSE IF list_result.summaries = <<>>
    THEN [ret |-> "False", calls |-> <<list_call(list_result)>>]
    ELSE [ret |-> IF start_result = "ok" THEN "True" ELSE "False",
          calls |-> <<list_call(list_result),
                      start_call(list_result.summaries[1], start_result)>>]

(* ------------------------------ main: tables -------------------------- *)
s3_bucket == "s3_bucket"

\* Destination keys of the tables.  The first entry of each table is the
\* one main() has; the entries after it are further documents of other types.
ExtCycle == << <<".","t","x","t">>, <<".","b","i","n">>, <<".","p","d","f">> >>
Ext(n) == ExtCycle[(n % Len(ExtCycle)) + 1]

url_source(n) ==
    IF n = 1
    THEN [url |-> "https://db3lw8u6vdvwu.cloudfront.net/ds/Suzano_SA.pdf",
          s3_key |-> <<"d","o","c","s","/","S","u","z","a","n","o","_","S","A",".","p","d","f">>]
    ELSE [url |-> "https://db3lw8u6vdvwu.cloudfront.net/ds/url_" \o ToString(n),
          s3_key |-> <<"d","o","c","s","/","u","r","l","_", ToString(n)>> \o Ext(n)]

file_source(n) ==
    IF n = 1
    THEN [local_file |-> "contents/error_code.pdf",
          s3_key |-> <<"d","o","c","s","/","e","r","r","o","r","_","c","o","d","e",".","p","d","f">>]
    ELSE [local_file |-> "contents/file_" \o ToString(n),
          s3_key |-> <<"d","o","c","s","/","f","i","l","e","_", ToString(n)>> \o Ext(n + 1)]

UrlTables == {[n \in 1..len |-> url_source(n)] : len \in 1..MaxUrl}
FileTables == {[n \in 1..len |-> file_source(n)] : len \in 1..MaxFile}

(* ------------------------------ main: state --------------------------- *)
VARIABLES
    url_sources,     \* main's table of URL sources (fixed during a behaviour)
    file_sources,    \* main's table of local-file sources (fixed)
    store,           \* keys of the objects present in the bucket
    pc,              \* where main is: "idle", "url_loop", "url_upload",
                     \*   "file_loop", "file_upload", "sync", "done"
    idx,             \* index of the source being processed in its table
    upload_success,  \* main's flag
    config,          \* "none", "loaded", or "error" (load_config exited)
    raised,          \* an exception left main uncaught
    sync_result,     \* what sync_knowledge_base returned: "none" before it
    exit_code,       \* the process's exit code, -1 while it runs
    run,             \* number of runs started
    invocations,     \* how many times the script is run against the bucket (fixed)
    calls,           \* the remote calls of this run, in order
    outcome,         \* what happened to each source of this run, in order
    put_log          \* per key, the put_object calls issued over all runs, in
                     \*   order: TRUE for a write that succeeded

vars == <<url_sources, file_sources, store, pc, idx, upload_success, config, raised,
          sync_result, exit_code, run, invocations, calls, outcome, put_log>>

Keys(urls, files) ==
    {urls[n].s3_key : n \in 1..Len(urls)} \cup {files[n].s3_key : n \in 1..Len(files)}

\* Where control goes after URL source n and after local-file source n.
after_url(n) ==
    IF n < Len(url_sources) THEN [pc |-> "url_loop", idx |-> n + 1]
    ELSE IF Len(file_sources) >= 1 THEN [pc |-> "file_loop", idx |-> 1]
    ELSE [pc |-> "sync", idx |-> 0]

\* the variant where a False upload result breaks out of the loop
after_file_or_stop(n, ret) ==
    IF ret = "True" /\ n < Len(file_sources) THEN [pc |-> "file_loop", idx |-> n + 1]
    ELSE [pc |-> "sync", idx |-> 0]

after_file(n, ret) ==
    IF n < Len(file_sources) THEN [pc |-> "file_loop", idx |-> n + 1]
    ELSE [pc |-> "sync", idx |-> 0]

\* What head_object answers for a key, given the bucket's content.
HeadOutcomes(key) ==
    IF key \in store THEN HeadResponses \ {"404"} ELSE HeadResponses \ {"200"}

head_call(key, head) == [op |-> "head_object", key |-> key, result |-> head]

\* Effects of a batch of calls on the bucket and on the log of writes.
IsPut(c) == c.op = "put_object"
PutsOk(cs) == {cs[n].key : n \in {m \in 1..Len(cs) : IsPut(cs[m]) /\ cs[m].ok}}
PutsOf(cs, key) ==
    LET F[n \in 0..Len(cs)] ==
            IF n = 0 THEN <<>>
            ELSE IF IsPut(cs[n]) /\ cs[n].key = key THEN Append(F[n - 1], cs[n].ok)
            ELSE F[n - 1]
    IN  F[Len(cs)]

\* the variant that returns True whenever the sync succeeded
main_return_sync_only(success, sync_ret) == sync_ret = "True"

\* main's return value (lines 247-251)
main_return(success, sync_ret) == IF sync_ret = "True" THEN success ELSE FALSE

\* exit(0 if success else 1)
exit_status(success) == IF success THEN 0 ELSE 1

\* An exception nobody catches ends the process with a traceback and status 1.
Uncaught(new_calls, new_outcome) ==
    /\ raised' = TRUE
    /\ pc' = "done"
    /\ exit_code' = 1
    /\ calls' = calls \o new_calls
    /\ outcome' = outcome \o new_outcome
    /\ UNCHANGED <<idx, upload_success, sync_result>>

\* Before the first run: the tables, the bucket with any of the keys already
\* present, and the number of runs to come.
Before(urls, files, runs) ==
    /\ url_sources = urls
    /\ file_sources = files
    /\ invocations = runs
    /\ store \in SUBSET Keys(url_sources, file_sources)
    /\ pc = "idle"
    /\ idx = 0
    /\ upload_success = TRUE
    /\ config = "none"
    /\ raised = FALSE
    /\ sync_result = "none"
    /\ exit_code = -1
    /\ run = 0
    /\ calls = <<>>
    /\ outcome = <<>>
    /\ put_log = [k \in Keys(url_sources, file_sources) |-> <<>>]

\* One run of the script, over tables of up to MaxUrl and MaxFile sources.
Init == \E urls \in UrlTables, files \in FileTables : Before(urls, files, 1)

\* The script as it is (main's own tables), run MaxRuns times in a row.
InitRuns == Before(<<url_source(1)>>, <<file_source(1)>>, MaxRuns)

\* python add_content.py: load_config, the clients, the tables, upload_success = True
MainStart ==
    /\ pc \in {"idle", "done"}
    /\ run < invocations
    /\ run' = run + 1
    /\ upload_success' = TRUE
    /\ raised' = FALSE
    /\ sync_result' = "none"
    /\ calls' = <<>>
    /\ outcome' = <<>>
    /\ \E cfg \in {"loaded", "error"} :
        /\ config' = cfg
        /\ IF cfg = "error"
           THEN pc' = "done" /\ idx' = 0 /\ exit_code' = 1
           ELSE /\ exit_code' = -1
                /\ IF Len(url_sources) >= 1
                   THEN pc' = "url_loop" /\ idx' = 1
                   ELSE pc' = after_url(0).pc /\ idx' = after_url(0).idx
    /\ UNCHANGED <<url_sources, file_sources, invocations, store, put_log>>

\* for source in url_sources: check_file_exists_in_s3 (lines 220-225)
UrlProbe ==
    /\ pc = "url_loop"
    /\ LET s3_key == url_sources[idx].s3_key IN
       \E head \in HeadOutcomes(s3_key) :
         LET exists == check_file_exists_in_s3(head)
             me(result) == <<[list |-> "url", n |-> idx, result |-> result]>>
         IN  IF exists = "raise"
             THEN Uncaught(<<head_call(s3_key, head)>>, me("probe_error"))
             ELSE /\ calls' = Append(calls, head_call(s3_key, head))
                  /\ IF exists = "True"
                     THEN /\ outcome' = outcome \o me("skipped")
                          /\ pc' = after_url(idx).pc
                          /\ idx' = after_url(idx).idx
                     ELSE /\ pc' = "url_upload"
                          /\ UNCHANGED <<outcome, idx>>
                  /\ UNCHANGED <<upload_success, raised, sync_result, exit_code>>
    /\ UNCHANGED <<url_sources, file_sources, invocations, store, config, run, put_log>>

\* The bucket and the log of writes after the calls of one uploader.
Written(new_calls) ==
    /\ store' = store \cup PutsOk(new_calls)
    /\ put_log' = [k \in DOMAIN put_log |-> put_log[k] \o PutsOf(new_calls, k)]

\* if not upload_url_to_s3(...): upload_success = False (lines 226-227)
UrlUpload ==
    /\ pc = "url_upload"
    /\ \E get_result \in GetResults, put_result \in PutResults :
         LET source == url_sources[idx]
             r == upload_url_to_s3(source.url, s3_bucket, source.s3_key,
                                   get_result, put_result)
             me(result) == <<[list |-> "url", n |-> idx, result |-> result]>>
         IN  /\ Written(r.calls)
             /\ IF r.ret = "raise"
                THEN Uncaught(r.calls, me("raised"))
                ELSE /\ calls' = calls \o r.calls
                     /\ upload_success' = IF r.ret = "False" THEN FALSE ELSE upload_success
                     /\ outcome' = outcome \o
                            me(IF r.ret = "True" THEN "uploaded" ELSE "failed")
                     /\ pc' = after_url(idx).pc
                     /\ idx' = after_url(idx).idx
                     /\ UNCHANGED <<raised, sync_result, exit_code>>
    /\ UNCHANGED <<url_sources, file_sources, invocations, config, run>>

\* the variant that logs the missing file but leaves upload_success alone
FileMissingNotRecorded ==
    /\ pc = "file_loop"
    /\ outcome' = Append(outcome, [list |-> "file", n |-> idx, result |-> "missing"])
    /\ pc' = after_file(idx, "False").pc
    /\ idx' = after_file(idx, "False").idx
    /\ UNCHANGED <<url_sources, file_sources, invocations, store, upload_success, config,
                   raised, sync_result, exit_code, run, calls, put_log>>

\* if not os.path.exists(local_file): upload_success = False; continue (lines 233-236)
FileMissing ==
    /\ pc = "file_loop"
    /\ upload_success' = FALSE
    /\ outcome' = Append(outcome, [list |-> "file", n |-> idx, result |-> "missing"])
    /\ pc' = after_file(idx, "False").pc
    /\ idx' = after_file(idx, "False").idx
    /\ UNCHANGED <<url_sources, file_sources, invocations, store, config, raised,
                   sync_result, exit_code, run, calls, put_log>>

\* the local file exists: check_file_exists_in_s3 (lines 237-239)
FileProbe ==
    /\ pc = "file_loop"
    /\ LET s3_key == file_sources[idx].s3_key IN
       \E head \in HeadOutcomes(s3_key) :
         LET exists == check_file_exists_in_s3(head)
             me(result) == <<[list |-> "file", n |-> idx, result |-> result]>>
         IN  IF exists = "raise"
             THEN Uncaught(<<head_call(s3_key, head)>>, me("probe_error"))
             ELSE /\ calls' = Append(calls, head_call(s3_key, head))
                  /\ IF exists = "True"
                     THEN /\ outcome' = outcome \o me("skipped")
                          /\ pc' = after_file(idx, "True").pc
                          /\ idx' = after_file(idx, "True").idx
                     ELSE /\ pc' = "file_upload"
                          /\ UNCHANGED <<outcome, idx>>
                  /\ UNCHANGED <<upload_success, raised, sync_result, exit_code>>
    /\ UNCHANGED <<url_sources, file_sources, invocations, store, config, run, put_log>>

\* if not upload_file_to_s3(...): upload_success = False (lines 240-241)
FileUpload ==
    /\ pc = "file_upload"
    /\ \E open_result \in OpenResults, put_result \in PutResults :
         LET source == file_sources[idx]
             r == upload_file_to_s3(source.local_file, s3_bucket, source.s3_key,
                                    open_result, put_result)
             me(result) == <<[list |-> "file", n |-> idx, result |-> result]>>
         IN  /\ Written(r.calls)
             /\ IF r.ret = "raise"
                THEN Uncaught(r.calls, me("raised"))
                ELSE /\ calls' = calls \o r.calls
                     /\ upload_success' = IF r.ret = "False" THEN FALSE ELSE upload_success
                     /\ outcome' = outcome \o
                            me(IF r.ret = "True" THEN "uploaded" ELSE "failed")
                     /\ pc' = after_file(idx, r.ret).pc
                     /\ idx' = after_file(idx, r.ret).idx
                     /\ UNCHANGED <<raised, sync_result, exit_code>>
    /\ UNCHANGED <<url_sources, file_sources, invocations, config, run>>

\* sync_knowledge_base, main's return value and exit (lines 243-255)
SyncAndExit ==
    /\ pc = "sync"
    /\ \E list_result \in ListResults, start_result \in StartResults :
         LET r == sync_knowledge_base(list_result, start_result)
         IN  /\ calls' = calls \o r.calls
             /\ sync_result' = r.ret
             /\ exit_code' = exit_status(main_return(upload_success, r.ret))
    /\ pc' = "done"
    /\ UNCHANGED <<url_sources, file_sources, invocations, store, idx, upload_success,
                   config, raised, run, outcome, put_log>>

Next ==
    \/ MainStart
    \/ UrlProbe
    \/ UrlUpload
    \/ FileMissing
    \/ FileProbe
    \/ FileUpload
    \/ SyncAndExit

Spec == Init /\ [][Next]_vars

SpecRuns == InitRuns /\ [][Next]_vars

(* ------------------- the uploaders on arbitrary names ------------------ *)
\* Names to resolve: a stem followed by an ending.  The endings are the
\* supported extensions in lower, upper and mixed case, and endings that match
\* none of them.
Stems == { <<"d","o","c","s","/","a">>, <<>>, <<"r","e","p","o","r","t",".","v","2">> }
Endings ==
  { <<".","j","p","g">>, <<".","j","p","e","g">>, <<".","p","d","f">>, <<".","t","x","t">>,
    <<".","c","s","v">>, <<".","p","p","t">>, <<".","p","p","t","x">>, <<".","d","o","c">>,
    <<".","d","o","c","x">>, <<".","x","l","s">>, <<".","p","y">>, <<".","j","s">>,
    <<".","m","d">>, <<".","p","n","g">>,
    <<".","P","D","F">>, <<".","P","d","f">>, <<".","J","P","G">>, <<".","J","p","E","g">>,
    <<".","T","X","T">>, <<".","C","s","v">>, <<".","P","P","T","X">>, <<".","D","O","C","X">>,
    <<".","X","L","S">>, <<".","P","Y">>, <<".","J","s">>, <<".","M","D">>, <<".","P","N","G">>,
    <<".","x","l","s","x">>, <<".","j","s","o","n">>, <<".","h","t","m","l">>,
    <<".","g","i","f">>, <<>>, <<".">>, <<"p","d","f">>,
    <<".","p","d","f",".","b","a","k">>, <<".","p","d","f","x">>, <<".","p","d">>,
    <<".","t","a","r",".","g","z">>, <<".","p",".","d","f">>,
    <<".","p","d","f","/","r","e","a","d","m","e">>, <<".","m","d","x">>, <<".","j","p">> }
Names == {stem \o ending : stem \in Stems, ending \in Endings}

\* main at the call of an uploader: the table holds one source whose key is any
\* of the names, and the probe for it has just answered 404.
InitUpload ==
    \E name \in Names, kind \in {"url", "file"} :
        /\ url_sources = IF kind = "url"
                         THEN <<[url |-> "https://example.com/document", s3_key |-> name]>>
                         ELSE <<>>
        /\ file_sources = IF kind = "file"
                          THEN <<[local_file |-> "contents/document", s3_key |-> name]>>
                          ELSE <<>>
        /\ invocations = 1
        /\ run = 1
        /\ store = {}
        /\ pc = IF kind = "url" THEN "url_upload" ELSE "file_upload"
        /\ idx = 1
        /\ upload_success = TRUE
        /\ config = "loaded"
        /\ raised = FALSE
        /\ sync_result = "none"
        /\ exit_code = -1
        /\ calls = <<head_call(name, "404")>>
        /\ outcome = <<>>
        /\ put_log = [k \in {name} |-> <<>>]

NextUpload == UrlUpload \/ FileUpload

SpecUpload == InitUpload /\ [][NextUpload]_vars

(* =============================== claims =============================== *)
Total == Len(url_sources) + Len(file_sources)

\* The n-th source of a run, URL sources first.
SourceAt(n) ==
    IF n <= Len(url_sources) THEN [list |-> "url", n |-> n]
    ELSE [list |-> "file", n |-> n - Len(url_sources)]
KeyAt(n) ==
    IF n <= Len(url_sources) THEN url_sources[n].s3_key
    ELSE file_sources[n - Len(url_sources)].s3_key

Heads == {a \in 1..Len(calls) : calls[a].op = "head_object"}
Gets == {a \in 1..Len(calls) : calls[a].op = "requests.get"}
Puts == {a \in 1..Len(calls) : calls[a].op = "put_object"}
Lists == {a \in 1..Len(calls) : calls[a].op = "list_data_sources"}
Starts == {a \in 1..Len(calls) : calls[a].op = "start_ingestion_job"}

ProbeRaised == \E n \in 1..Len(outcome) : outcome[n].result = "probe_error"
\* a run that loaded its config, met no probe error, and has ended
Ended == pc = "done" /\ config = "loaded" /\ ~ProbeRaised

\* The source with this key was found present, or a write for it succeeded.
Present(key) == \E a \in Heads : calls[a].key = key /\ calls[a].result = "200"
Uploaded(key) == \E a \in Puts : calls[a].key = key /\ calls[a].ok
AllSourcesFine == \A n \in 1..Total : Present(KeyAt(n)) \/ Uploaded(KeyAt(n))

\* C1: a run that loaded its config and met no probe error ends with exit
\* code 0 exactly when every source was found present or written successfully
\* and sync_knowledge_base returned True; otherwise it ends with exit code 1.
C1_ExitCode ==
    Ended =>
        /\ Len(outcome) = Total
        /\ exit_code \in {0, 1}
        /\ exit_code = 0 <=> (AllSourcesFine /\ sync_result = "True")

\* every source skipped or uploaded, a write among them, the sync failed: exit 1
C1_Witness ==
    /\ Ended
    /\ AllSourcesFine
    /\ \E n \in 1..Total : Uploaded(KeyAt(n))
    /\ \E n \in 1..Total : Present(KeyAt(n))
    /\ sync_result = "False"
    /\ exit_code = 1

\* C2: a put_object for a key comes only after a probe of that key answered
\* "absent" in this run, and a key whose probe answered "present" is not written.
C2_WriteOnlyAfterAbsent ==
    /\ \A b \in Puts : \E a \in Heads :
           a < b /\ calls[a].key = calls[b].key /\ calls[a].result = "404"
    /\ \A a \in Heads : calls[a].result = "200" =>
           \A b \in Puts : calls[b].key # calls[a].key

\* one URL key skipped as present, one local-file key written after a 404
C2_Witness ==
    /\ \E a \in Heads, b \in Puts :
           /\ calls[a].result = "200"
           /\ \E n \in 1..Len(url_sources) : url_sources[n].s3_key = calls[a].key
           /\ \E n \in 1..Len(file_sources) : file_sources[n].s3_key = calls[b].key
    /\ pc = "done"

\* C3: a failed item (missing local file, download error, write error) sets
\* upload_success to False and nothing else: both uploaders, where main calls
\* them, answer False for every failure, the sources are processed one after the other in table
\* order, the run goes on after a failed item, and only a probe error ends it
\* early.
C3_FailureDoesNotHalt ==
    /\ pc = "url_upload" =>
           \A g \in GetResults, w \in PutResults : (g # "ok" \/ w # "ok") =>
               upload_url_to_s3(url_sources[idx].url, s3_bucket, url_sources[idx].s3_key,
                                g, w).ret = "False"
    /\ pc = "file_upload" =>
           \A o \in OpenResults, w \in PutResults : (o # "ok" \/ w # "ok") =>
               upload_file_to_s3(file_sources[idx].local_file, s3_bucket,
                                 file_sources[idx].s3_key, o, w).ret = "False"
    /\ Len(outcome) <= Total
    /\ \A n \in 1..Len(outcome) :
           /\ outcome[n].list = SourceAt(n).list
           /\ outcome[n].n = SourceAt(n).n
           /\ outcome[n].result \in {"failed", "missing"} =>
                  /\ upload_success = FALSE
                  /\ \/ n < Len(outcome)
                     \/ pc # "done"
                     \/ n = Total /\ sync_result # "none"
    /\ raised => outcome[Len(outcome)].result = "probe_error"
    /\ Ended => Len(outcome) = Total

\* the first URL source failed, every later source was processed, the sync ran
C3_Witness ==
    /\ Ended
    /\ Total >= 3
    /\ outcome[1].result = "failed"
    /\ \E n \in 2..Total : outcome[n].result = "uploaded"
    /\ \E n \in 2..Total : outcome[n].result = "missing"
    /\ sync_result = "True"
    /\ exit_code = 1

\* C4: a probe that answers anything but "present" or "not found" ends the run
\* with the error: it is the run's last call, no write for its key was issued,
\* and the exit code is 1.  An upload is attempted only right after a 404, and
\* a source is skipped only after the probe found it.
C4_ProbeErrorPropagates ==
    /\ \A a \in Heads : calls[a].result \notin {"200", "404"} =>
           /\ raised
           /\ pc = "done"
           /\ exit_code = 1
           /\ a = Len(calls)
           /\ \A b \in Puts : calls[b].key # calls[a].key
           /\ put_log[calls[a].key] = <<>>
    /\ pc = "url_upload" =>
           calls[Len(calls)] = head_call(url_sources[idx].s3_key, "404")
    /\ pc = "file_upload" =>
           calls[Len(calls)] = head_call(file_sources[idx].s3_key, "404")
    /\ \A n \in 1..Len(outcome) :
           /\ outcome[n].result = "skipped" => Present(KeyAt(n))
           /\ outcome[n].result = "probe_error" =>
                  \E a \in Heads : /\ calls[a].key = KeyAt(n)
                                   /\ calls[a].result \notin {"200", "404"}

\* a 403 on the probe of a later source, for a key that is not in the bucket
C4_Witness ==
    /\ raised
    /\ Len(calls) > 1
    /\ calls[Len(calls)].op = "head_object"
    /\ calls[Len(calls)].result = "403"
    /\ calls[Len(calls)].key \notin store
    /\ exit_code = 1

\* C5: over consecutive runs against the same bucket, once a write for a key
\* has succeeded no further write for that key is issued; so a key whose first
\* write succeeded has been written exactly once, and later runs only skip it.
C5_OneWriteOverRuns ==
    \A k \in DOMAIN put_log :
        /\ \A n \in 1..Len(put_log[k]) : put_log[k][n] => n = Len(put_log[k])
        /\ (put_log[k] # <<>> /\ put_log[k][1]) => Len(put_log[k]) = 1

\* the second run has ended; it found present, and skipped, a key that the
\* first run wrote
C5_Witness ==
    /\ run = 2
    /\ pc = "done"
    /\ \E n \in 1..Len(outcome) :
           /\ outcome[n].result = "skipped"
           /\ put_log[KeyAt(n)] = <<TRUE>>
           /\ KeyAt(n) \in store

\* Position of a call in the order of main: the source it belongs to, the
\* knowledge-base calls last.
KeyRank(key) == CHOOSE n \in 1..Total : KeyAt(n) = key
Rank(c) ==
    IF c.op \in {"head_object", "put_object"} THEN KeyRank(c.key)
    ELSE IF c.op = "requests.get"
    THEN CHOOSE n \in 1..Len(url_sources) : url_sources[n].url = c.url
    ELSE Total + 1
\* within a source: probe, then download, then write; within the sync: list,
\* then start
Stage(c) ==
    IF c.op \in {"head_object", "list_data_sources"} THEN 1
    ELSE IF c.op = "requests.get" THEN 2
    ELSE 3
\* c comes before d in the order of main
ComesBefore(c, d) ==
    \/ Rank(c) < Rank(d)
    \/ Rank(c) = Rank(d) /\ Stage(c) < Stage(d)

\* C6: each call of a run comes before the next one in the order of main: the
\* URL table, then the local-file table, then the sync; every source is
\* handled once, in that order; a run that loaded its config and met no probe error calls the sync
\* exactly once, whether or not an upload failed, and then exits; nothing is
\* probed or uploaded once the sync has been called.
C6_Order ==
    /\ \A a \in 1..(Len(calls) - 1) : ComesBefore(calls[a], calls[a + 1])
    /\ \A n \in 1..Len(outcome) : outcome[n].list = SourceAt(n).list
                                  /\ outcome[n].n = SourceAt(n).n
    /\ Cardinality(Lists) <= 1
    /\ Lists # {} => pc = "done" /\ sync_result # "none"
    /\ Ended => /\ Len(outcome) = Total
                /\ Cardinality(Lists) = 1
                /\ exit_code \in {0, 1}
    /\ pc # "done" => exit_code = -1 /\ sync_result = "none"

\* two URL sources and two local-file sources, an upload failed, the sync ran
C6_Witness ==
    /\ Ended
    /\ Len(url_sources) >= 2
    /\ Len(file_sources) >= 2
    /\ upload_success = FALSE
    /\ Cardinality(Puts) >= 2
    /\ Cardinality(Lists) = 1
    /\ Starts # {}

\* C7: sync_knowledge_base lists the data sources once; when the listing
\* raises or is empty it starts no job and returns False; otherwise it starts
\* exactly one job, for the first listed data source, and returns True when
\* the start succeeds and False when it raises.
C7_Sync ==
    /\ sync_result # "none" => Cardinality(Lists) = 1
    /\ Starts # {} => Lists # {}
    /\ \A a \in Lists :
           IF ~calls[a].ok \/ calls[a].summaries = <<>>
           THEN Starts = {} /\ sync_result = "False"
           ELSE /\ Starts = {a + 1}
                /\ calls[a + 1].dataSourceId = calls[a].summaries[1]
                /\ sync_result = IF calls[a + 1].ok THEN "True" ELSE "False"

\* two data sources listed, the job started for the first of them
C7_Witness ==
    /\ sync_result = "True"
    /\ \E a \in Lists : /\ Len(calls[a].summaries) = 2
                        /\ calls[a].summaries[1] # calls[a].summaries[2]
    /\ \E b \in Starts : calls[b].dataSourceId = "ds2"

\* C8: a write carries ContentDisposition = inline exactly when the content
\* type resolved from its key is application/pdf.
C8_InlineOnlyForPdf ==
    \A b \in Puts :
        ("ContentDisposition" \in DOMAIN calls[b].params)
            <=> get_contents_type(calls[b].key) = "application/pdf"

\* the URL uploader wrote a key ending in .PDF (upper case) with the directive
C8_Witness ==
    \E b \in Puts :
        /\ url_sources # <<>>
        /\ endswith(calls[b].key, <<".","P","D","F">>)
        /\ calls[b].params.ContentDisposition = "inline"

\* The table of section 4.2, by extension: the characters after the last dot.
LastDot(name) ==
    IF \E n \in 1..Len(name) : name[n] = "."
    THEN CHOOSE n \in 1..Len(name) :
             name[n] = "." /\ \A m \in (n + 1)..Len(name) : name[m] # "."
    ELSE 0
Extension(name) == lower(SubSeq(name, LastDot(name) + 1, Len(name)))
MimeTable ==
    { << <<"j","p","g">>, "image/jpeg" >>, << <<"j","p","e","g">>, "image/jpeg" >>,
      << <<"p","d","f">>, "application/pdf" >>, << <<"t","x","t">>, "text/plain" >>,
      << <<"c","s","v">>, "text/csv" >>,
      << <<"p","p","t">>, "application/vnd.ms-powerpoint" >>,
      << <<"p","p","t","x">>, "application/vnd.ms-powerpoint" >>,
      << <<"d","o","c">>, "application/msword" >>,
      << <<"d","o","c","x">>, "application/msword" >>,
      << <<"x","l","s">>, "application/vnd.ms-excel" >>,
      << <<"p","y">>, "text/x-python" >>, << <<"j","s">>, "application/javascript" >>,
      << <<"m","d">>, "text/markdown" >>, << <<"p","n","g">>, "image/png" >> }
ExpectedType(name) ==
    IF LastDot(name) > 0 /\ \E e \in MimeTable : e[1] = Extension(name)
    THEN (CHOOSE e \in MimeTable : e[1] = Extension(name))[2]
    ELSE "no info"

\* C9: get_contents_type answers the table's MIME string for a name with a
\* supported extension in any letter case and "no info" for any other name; a
\* write carries ContentType exactly when the answer is not "no info", and
\* then ContentType is the answer.
C9_ContentType ==
    /\ \A key \in Keys(url_sources, file_sources) :
           get_contents_type(key) = ExpectedType(key)
    /\ \A b \in Puts :
           /\ ("ContentType" \in DOMAIN calls[b].params)
                  <=> ExpectedType(calls[b].key) # "no info"
           /\ "ContentType" \in DOMAIN calls[b].params =>
                  calls[b].params.ContentType = ExpectedType(calls[b].key)
           /\ calls[b].params.Metadata.content_type = ExpectedType(calls[b].key)

\* a write for a key whose extension is not all lower case, with its header
C9_Witness ==
    \E b \in Puts :
        /\ lower(calls[b].key) # calls[b].key
        /\ ExpectedType(calls[b].key) = "application/msword"
        /\ calls[b].params.ContentType = "application/msword"

\* C10: a local-file source whose file is missing gets neither a probe nor a
\* write, and fails the run: upload_success is False and the exit code is 1,
\* also when the bucket already holds an object at its key.
C10_MissingFileFailsRun ==
    \A n \in 1..Len(outcome) : outcome[n].result = "missing" =>
        /\ outcome[n].list = "file"
        /\ \A a \in Heads \cup Puts : calls[a].key # file_sources[outcome[n].n].s3_key
        /\ put_log[file_sources[outcome[n].n].s3_key] = <<>>
        /\ upload_success = FALSE
        /\ pc = "done" => exit_code = 1

\* the file is missing, its key is in the bucket, every other source is fine
\* and the sync succeeded: the exit code is 1
C10_Witness ==
    /\ Ended
    /\ sync_result = "True"
    /\ exit_code = 1
    /\ \E n \in 1..Total :
           /\ outcome[n].result = "missing"
           /\ KeyAt(n) \in store
           /\ \A m \in (1..Total) \ {n} : outcome[m].result \in {"skipped", "uploaded"}

====
